---- MODULE Spec2Model ----
(***************************************************************************)
(* Conway's Game of Life for PicoCalc (src/lifegame.py).                   *)
(*                                                                         *)
(* The module models class LifeGame: the two grid buffers, step(), the     *)
(* renderers (_draw_changed_cells, draw_full_grid) and the main loop of    *)
(* run(), one action per statement group of the loop.  The collaborators   *)
(* (display, terminal, keyboard) are modelled by what the program can      *)
(* observe of them: the colour last painted on every cell block, the last  *)
(* status line written, and a FIFO of key bytes that readinto() consumes.  *)
(* A cell block is CELL_SIZE x CELL_SIZE pixels painted by one pair of     *)
(* loops (lines 108-111, 127-130); the model keeps one colour per block.   *)
(***************************************************************************)
EXTENDS Integers, Sequences, FiniteSets, TLC

\* ---------------------------------------------------------------- bounds
\* Spec: grids of at most MaxCells cells, at most MaxGen generations,
\* at most MaxKeys unread key bytes in the keyboard FIFO.
MaxCells == 2
MaxGen == 2
MaxKeys == 1
\* EngineSpec: grids of at most EngMaxCells cells, EngMaxGen generations.
EngMaxCells == 6
EngMaxGen == 2
\* PatternSpec: grids of PatMinDim..PatMaxDim columns and rows, PatMaxGen
\* generations.
\* RenderSpec: buffers of at most RenMaxCells cells.
RenMaxCells == 3
\* ScratchSpec: grids of at most ScrMaxCells cells.
ScrMaxCells == 4
PatMinDim == 3
PatMaxDim == 5
PatMaxGen == 4

\* ------------------------------------------------------------- constants
COLOR_DEAD == 0
COLOR_ALIVE == 7
COLOR_BORN == 11
COLOR_DIED == 8

Colors == {COLOR_DEAD, COLOR_ALIVE, COLOR_BORN, COLOR_DIED}

\* key bytes: the four the loop tests for, and one other key
PauseKeys == {"p", "P"}
QuitKeys == {"q", "Q"}
OtherKeys == {"x"}
Keys == PauseKeys \cup QuitKeys \cup OtherKeys

VARIABLES
    width, height,      \* self.width, self.height
    grid, next_grid,    \* self.grid, self.next_grid: index -> 0 or 1
    live_neighbors,     \* the count step() computed for each cell, last call
    paused, running,    \* self.paused, self.running
    generation,         \* self.generation
    pc,                 \* position of run()
    exc,                \* the exception propagating out of the try block
    keys,               \* key bytes waiting in the keyboard FIFO
    last_read,          \* the byte the last successful readinto() stored in
                        \* temp_key_buffer, and the poll that read it
    screen,             \* colour last painted on each cell block
    paints,             \* cell blocks painted by the last render call
    status,             \* text last written to the status line
    palette, cursor     \* display palette and terminal cursor

vars == <<width, height, grid, next_grid, live_neighbors, paused, running,
          generation, pc, exc, keys, last_read, screen, paints, status,
          palette, cursor>>

\* ------------------------------------------------------------ grid, step
Cells(w, h) == 0 .. (w * h - 1)

\* the (dx, dy) pairs in the order of the loops of lines 59-60
Offsets ==
    << <<-1, -1>>, <<0, -1>>, <<1, -1>>,
       <<-1, 0>>,  <<0, 0>>,  <<1, 0>>,
       <<-1, 1>>,  <<0, 1>>,  <<1, 1>> >>

\* WrapMut: a coordinate clamped to the edge instead of wrapped
WrapMut(c, dim) == IF c < 0 THEN 0 ELSE IF c >= dim THEN dim - 1 ELSE c

\* (x + dx) % self.width: Python's % is non-negative for a positive modulus
Wrap(c, dim) == c % dim

\* lines 58-67: the loop over the offsets from the k-th on, (0,0) skipped
RECURSIVE CountFrom(_, _, _, _, _, _)
CountFrom(g, w, h, x, y, k) ==
    IF k > Len(Offsets) THEN 0
    ELSE LET dx == Offsets[k][1]
             dy == Offsets[k][2]
             nx == Wrap(x + dx, w)
             ny == Wrap(y + dy, h)
         IN  IF dx = 0 /\ dy = 0
             THEN CountFrom(g, w, h, x, y, k + 1)
             ELSE (IF g[ny * w + nx] # 0 THEN 1 ELSE 0)
                  + CountFrom(g, w, h, x, y, k + 1)

LiveNeighbors(g, w, h, x, y) == CountFrom(g, w, h, x, y, 1)

\* NextStateMut: an alive cell with 4 neighbours survives
NextStateMut(is_alive, n) ==
    IF is_alive # 0
    THEN (IF n < 2 \/ n > 4 THEN 0 ELSE 1)
    ELSE (IF n = 3 THEN 1 ELSE 0)

\* lines 73-82: the rules
NextState(is_alive, n) ==
    IF is_alive # 0
    THEN (IF n < 2 \/ n > 3 THEN 0 ELSE 1)
    ELSE (IF n = 3 THEN 1 ELSE 0)

\* the counts of one call of step(), by index y * width + x
NeighborCounts(g, w, h) ==
    [i \in Cells(w, h) |-> LiveNeighbors(g, w, h, i % w, i \div w)]

\* NextGenerationMut: the counter is not advanced
NextGenerationMut(n) == n

\* line 54
NextGeneration(n) == n + 1

\* StepFromMut: a dead result is not written (the else branches of lines
\* 75 and 82 are missing), so the destination keeps what it held
RECURSIVE StepFromMut(_, _, _, _, _)
StepFromMut(src, dest, w, h, i) ==
    IF i >= w * h THEN dest
    ELSE LET s == NextState(src[i], LiveNeighbors(src, w, h, i % w, i \div w))
         IN  StepFromMut(src, IF s = 1 THEN [dest EXCEPT ![i] = 1] ELSE dest,
                         w, h, i + 1)

\* lines 55-82: the loops of step() from index i on (y outer, x inner: index
\* ascending); each pass reads src and writes dest at current_index only
RECURSIVE StepFrom(_, _, _, _, _)
StepFrom(src, dest, w, h, i) ==
    IF i >= w * h THEN dest
    ELSE StepFrom(src,
                  [dest EXCEPT ![i] =
                      NextState(src[i],
                                LiveNeighbors(src, w, h, i % w, i \div w))],
                  w, h, i + 1)

\* what next_grid holds when the loops of step() end
StepGrid(src, dest, w, h) == StepFrom(src, dest, w, h, 0)

\* StepSwapMut: the result is copied into grid and next_grid keeps it too
StepSwapMut(g, ng) == <<ng, ng>>

\* line 85: the pair (self.grid, self.next_grid) after the swap, from the
\* source g and the written destination ng
StepSwap(g, ng) == <<ng, g>>

\* lines 54-85: step(); every cell of next_grid is written from grid, then
\* the two buffers are swapped
StepBody ==
    /\ generation' = NextGeneration(generation)
    /\ live_neighbors' = NeighborCounts(grid, width, height)
    /\ grid' = StepSwap(grid, StepGrid(grid, next_grid, width, height))[1]
    /\ next_grid' = StepSwap(grid, StepGrid(grid, next_grid, width, height))[2]

\* ------------------------------------------------------------- renderers
\* lines 92-111: the paint instructions of _draw_changed_cells from index i
\* on, in the order of the loops (y outer, x inner: index ascending)
RECURSIVE ChangedFrom(_, _, _, _, _, _)
ChangedFrom(old, new, w, h, use_highlight_colors, i) ==
    IF i >= w * h THEN << >>
    ELSE IF old[i] = new[i]
         THEN ChangedFrom(old, new, w, h, use_highlight_colors, i + 1)
         ELSE LET color ==
                      IF use_highlight_colors
                      THEN (IF new[i] = 1 THEN COLOR_BORN ELSE COLOR_DIED)
                      ELSE (IF new[i] = 1 THEN COLOR_ALIVE ELSE COLOR_DEAD)
              IN  << [x |-> i % w, y |-> i \div w, color |-> color] >>
                  \o ChangedFrom(old, new, w, h, use_highlight_colors, i + 1)

\* DrawChangedCellsMut: the equality test of line 99 is dropped
DrawChangedCellsMut(old, new, w, h, use_highlight_colors) ==
    [i \in 1 .. (w * h) |->
        [x |-> (i - 1) % w, y |-> (i - 1) \div w,
         color |-> IF use_highlight_colors
                   THEN (IF new[i - 1] = 1 THEN COLOR_BORN ELSE COLOR_DIED)
                   ELSE (IF new[i - 1] = 1 THEN COLOR_ALIVE ELSE COLOR_DEAD)]]

\* DrawChangedCellsStateMut: the colour is chosen from old_state
DrawChangedCellsStateMut(old, new, w, h, use_highlight_colors) ==
    [k \in DOMAIN ChangedFrom(old, new, w, h, use_highlight_colors, 0) |->
        LET p == ChangedFrom(old, new, w, h, use_highlight_colors, 0)[k]
            was == old[p.y * w + p.x]
        IN  [p EXCEPT !.color =
                IF use_highlight_colors
                THEN (IF was = 1 THEN COLOR_BORN ELSE COLOR_DIED)
                ELSE (IF was = 1 THEN COLOR_ALIVE ELSE COLOR_DEAD)]]

DrawChangedCells(old, new, w, h, use_highlight_colors) ==
    ChangedFrom(old, new, w, h, use_highlight_colors, 0)

\* lines 123-130: the paint instructions of draw_full_grid, from index i on
RECURSIVE FullFrom(_, _, _, _)
FullFrom(g, w, h, i) ==
    IF i >= w * h THEN << >>
    ELSE << [x |-> i % w, y |-> i \div w,
             color |-> IF g[i] # 0 THEN COLOR_ALIVE ELSE COLOR_DEAD] >>
         \o FullFrom(g, w, h, i + 1)

\* DrawFullGridMut: only the alive cells are painted
DrawFullGridMut(g, w, h) ==
    ChangedFrom([i \in Cells(w, h) |-> 0], g, w, h, FALSE, 0)

DrawFullGrid(g, w, h) == FullFrom(g, w, h, 0)

\* ResumeRenderMut: the resume repaints only the cells of the last diff
ResumeRenderMut(g, old, w, h) == DrawChangedCells(old, g, w, h, FALSE)

\* line 156: what the resume paints
ResumeRender(g, old, w, h) == DrawFullGrid(g, w, h)

\* display.pixel over the blocks of the instructions, in order
RECURSIVE Paint(_, _, _)
Paint(scr, ps, w) ==
    IF ps = << >> THEN scr
    ELSE Paint([scr EXCEPT ![Head(ps).y * w + Head(ps).x] = Head(ps).color],
               Tail(ps), w)

\* a render call that raises in display.pixel has painted a proper prefix
Prefixes(ps) == {SubSeq(ps, 1, k) : k \in 0 .. (Len(ps) - 1)}

\* -------------------------------------------------------------- status
\* line 146-147: update_status(process_name)
StatusText(process_name) == <<"Gen: ", generation, ", ">> \o process_name

\* line 186
PausedText == <<"PAUSED (Gen: ", generation, ") | P:Resume Q:Quit">>

NoRead == [key |-> "", at |-> "none"]

\* ---------------------------------------------------------------- Init
Dims(maxCells) ==
    {d \in (1 .. maxCells) \X (1 .. maxCells) : d[1] * d[2] <= maxCells}

\* lines 31-40 (__init__), before run(): grid random, next_grid zeroed
InitFor(maxCells) ==
    /\ \E d \in Dims(maxCells) :
          /\ width = d[1]
          /\ height = d[2]
          /\ grid \in [Cells(d[1], d[2]) -> {0, 1}]
          /\ next_grid = [i \in Cells(d[1], d[2]) |-> 0]
          /\ live_neighbors = [i \in Cells(d[1], d[2]) |-> 0]
          /\ \E c \in Colors : screen = [i \in Cells(d[1], d[2]) |-> c]
    /\ paused = FALSE
    /\ running = TRUE
    /\ generation = 0
    /\ exc = "none"
    /\ keys = << >>
    /\ last_read = NoRead
    /\ paints = << >>
    /\ status = << >>
    /\ palette = "default"
    /\ cursor = "shown"

Init == InitFor(MaxCells) /\ pc = "start"

\* ------------------------------------------------------------- run()
gridVars == <<width, height, grid, next_grid, live_neighbors, generation>>
flagVars == <<paused, running>>
dispVars == <<screen, paints, palette, cursor>>

\* the user presses a key while run() is executing
KeyPress ==
    /\ pc \notin {"start", "done", "aborted"}
    /\ Len(keys) < MaxKeys
    /\ \E k \in Keys : keys' = Append(keys, k)
    /\ UNCHANGED <<gridVars, flagVars, dispVars, pc, exc, last_read, status>>

\* lines 135-136
Setup ==
    /\ pc = "start"
    /\ palette' = "pico8"
    /\ cursor' = "hidden"
    /\ pc' = "initial_draw"
    /\ UNCHANGED <<gridVars, flagVars, exc, keys, last_read, screen, paints,
                   status>>

\* line 138
InitialDraw ==
    /\ pc = "initial_draw"
    /\ paints' = DrawFullGrid(grid, width, height)
    /\ screen' = Paint(screen, paints', width)
    /\ pc' = "loop_test"
    /\ UNCHANGED <<gridVars, flagVars, exc, keys, last_read, status, palette,
                   cursor>>

\* line 138 raising: outside the try block, so no finally clause runs
InitialDrawFails ==
    /\ pc = "initial_draw"
    /\ paints' \in Prefixes(DrawFullGrid(grid, width, height))
    /\ screen' = Paint(screen, paints', width)
    /\ exc' = "pixel"
    /\ pc' = "aborted"
    /\ UNCHANGED <<gridVars, flagVars, keys, last_read, status, palette,
                   cursor>>

\* line 142
LoopTest ==
    /\ pc = "loop_test"
    /\ pc' = IF running THEN "poll" ELSE "cleanup"
    /\ UNCHANGED <<gridVars, flagVars, dispVars, exc, keys, last_read, status>>

\* line 150, nothing to read
TopPollNoKey ==
    /\ pc = "poll"
    /\ keys = << >>
    /\ pc' = "update"
    /\ UNCHANGED <<gridVars, flagVars, dispVars, exc, keys, last_read, status>>

\* lines 150-153, p pressed while running
TopPollPause ==
    /\ pc = "poll"
    /\ keys # << >>
    /\ Head(keys) \in PauseKeys
    /\ ~paused
    /\ keys' = Tail(keys)
    /\ last_read' = [key |-> Head(keys), at |-> "top"]
    /\ paused' = TRUE
    /\ pc' = "update"
    /\ UNCHANGED <<gridVars, running, dispVars, exc, status>>

\* lines 150-156, p pressed while paused
TopPollResume ==
    /\ pc = "poll"
    /\ keys # << >>
    /\ Head(keys) \in PauseKeys
    /\ paused
    /\ keys' = Tail(keys)
    /\ last_read' = [key |-> Head(keys), at |-> "top"]
    /\ paused' = FALSE
    /\ paints' = ResumeRender(grid, next_grid, width, height)
    /\ screen' = Paint(screen, paints', width)
    /\ pc' = "update"
    /\ UNCHANGED <<gridVars, running, exc, status, palette, cursor>>

\* lines 150-156, draw_full_grid raising in display.pixel
TopPollResumeFails ==
    /\ pc = "poll"
    /\ keys # << >>
    /\ Head(keys) \in PauseKeys
    /\ paused
    /\ keys' = Tail(keys)
    /\ last_read' = [key |-> Head(keys), at |-> "top"]
    /\ paused' = FALSE
    /\ paints' \in Prefixes(ResumeRender(grid, next_grid, width, height))
    /\ screen' = Paint(screen, paints', width)
    /\ exc' = "pixel"
    /\ pc' = "cleanup"
    /\ UNCHANGED <<gridVars, running, status, palette, cursor>>

\* lines 150-158, q pressed
TopPollQuit ==
    /\ pc = "poll"
    /\ keys # << >>
    /\ Head(keys) \in QuitKeys
    /\ keys' = Tail(keys)
    /\ last_read' = [key |-> Head(keys), at |-> "top"]
    /\ running' = FALSE
    /\ pc' = "update"
    /\ UNCHANGED <<gridVars, paused, dispVars, exc, status>>

\* lines 150-158, any other key
TopPollOther ==
    /\ pc = "poll"
    /\ keys # << >>
    /\ Head(keys) \notin PauseKeys \cup QuitKeys
    /\ keys' = Tail(keys)
    /\ last_read' = [key |-> Head(keys), at |-> "top"]
    /\ pc' = "update"
    /\ UNCHANGED <<gridVars, flagVars, dispVars, exc, status>>

\* SkipUpdateMut: the test of line 161 is missing
SkipUpdateMut ==
    /\ pc = "update"
    /\ paused
    /\ pc' = "calc_status"
    /\ UNCHANGED <<gridVars, flagVars, dispVars, exc, keys, last_read, status>>

\* line 161 false: on to line 185
SkipUpdate ==
    /\ pc = "update"
    /\ paused
    /\ pc' = "report"
    /\ UNCHANGED <<gridVars, flagVars, dispVars, exc, keys, last_read, status>>

\* lines 161-163
StatusDisplaying ==
    /\ pc = "update"
    /\ ~paused
    /\ status' = StatusText(<<"Displaying Gen ", generation>>)
    /\ pc' = "dwell"
    /\ UNCHANGED <<gridVars, flagVars, dispVars, exc, keys, last_read>>

\* line 164
DisplayDwell ==
    /\ pc = "dwell"
    /\ pc' = "dwell_poll"
    /\ UNCHANGED <<gridVars, flagVars, dispVars, exc, keys, last_read, status>>

\* line 167, a key was read: continue
DwellPollKey ==
    /\ pc = "dwell_poll"
    /\ keys # << >>
    /\ keys' = Tail(keys)
    /\ last_read' = [key |-> Head(keys), at |-> "dwell"]
    /\ pc' = "loop_test"
    /\ UNCHANGED <<gridVars, flagVars, dispVars, exc, status>>

\* line 167, nothing to read
DwellPollNoKey ==
    /\ pc = "dwell_poll"
    /\ keys = << >>
    /\ pc' = "calc_status"
    /\ UNCHANGED <<gridVars, flagVars, dispVars, exc, keys, last_read, status>>

\* line 170
StatusCalculating ==
    /\ pc = "calc_status"
    /\ status' = StatusText(<<"Calculating next generation">>)
    /\ pc' = "step"
    /\ UNCHANGED <<gridVars, flagVars, dispVars, exc, keys, last_read>>

\* line 171
Step ==
    /\ pc = "step"
    /\ generation < MaxGen
    /\ StepBody
    /\ pc' = "draw_status"
    /\ UNCHANGED <<width, height, flagVars, dispVars, exc, keys, last_read,
                   status>>

\* line 173
StatusDrawing ==
    /\ pc = "draw_status"
    /\ status' = StatusText(<<"Drawing highlights">>)
    /\ pc' = "draw_highlights"
    /\ UNCHANGED <<gridVars, flagVars, dispVars, exc, keys, last_read>>

\* HighlightModeMut: draw_highlights passes the flag of reset_highlights
HighlightModeMut == FALSE

\* line 115: the argument of draw_highlights
HighlightMode == TRUE

\* line 174
DrawHighlights ==
    /\ pc = "draw_highlights"
    /\ paints' = DrawChangedCells(next_grid, grid, width, height,
                                  HighlightMode)
    /\ screen' = Paint(screen, paints', width)
    /\ pc' = "hl_status"
    /\ UNCHANGED <<gridVars, flagVars, exc, keys, last_read, status, palette,
                   cursor>>

\* line 177
StatusDisplayingHighlights ==
    /\ pc = "hl_status"
    /\ status' = StatusText(<<"Displaying highlights">>)
    /\ pc' = "hl_dwell"
    /\ UNCHANGED <<gridVars, flagVars, dispVars, exc, keys, last_read>>

\* line 178
HighlightDwell ==
    /\ pc = "hl_dwell"
    /\ pc' = "final_status"
    /\ UNCHANGED <<gridVars, flagVars, dispVars, exc, keys, last_read, status>>

\* line 181
StatusFinalizing ==
    /\ pc = "final_status"
    /\ status' = StatusText(<<"Finalizing generation display">>)
    /\ pc' = "reset_highlights"
    /\ UNCHANGED <<gridVars, flagVars, dispVars, exc, keys, last_read>>

\* line 182
ResetHighlights ==
    /\ pc = "reset_highlights"
    /\ paints' = DrawChangedCells(next_grid, grid, width, height, FALSE)
    /\ screen' = Paint(screen, paints', width)
    /\ pc' = "report"
    /\ UNCHANGED <<gridVars, flagVars, exc, keys, last_read, status, palette,
                   cursor>>

\* lines 185-188
PausedStatus ==
    /\ pc = "report"
    /\ paused
    /\ status' = PausedText
    /\ pc' = "loop_test"
    /\ UNCHANGED <<gridVars, flagVars, dispVars, exc, keys, last_read>>

\* lines 189-191
StatusEndOfGen ==
    /\ pc = "report"
    /\ ~paused
    /\ status' = StatusText(<<"End of Gen ", generation>>)
    /\ pc' = "loop_test"
    /\ UNCHANGED <<gridVars, flagVars, dispVars, exc, keys, last_read>>

\* the positions of the try block at which one collaborator is called
PollPcs == {"poll", "dwell_poll"}
StatusPcs == {"update", "calc_status", "draw_status", "hl_status",
              "final_status", "report"}
DiffPcs == {"draw_highlights", "reset_highlights"}

\* keyboard.readinto raising (lines 150, 167)
PollFails ==
    /\ pc \in PollPcs
    /\ exc' = "keyboard"
    /\ pc' = "cleanup"
    /\ UNCHANGED <<gridVars, flagVars, dispVars, keys, last_read, status>>

\* terminal.wr raising in a status write (lines 147, 187)
StatusFails ==
    /\ pc \in StatusPcs
    /\ pc = "update" => ~paused
    /\ exc' = "terminal"
    /\ pc' = "cleanup"
    /\ UNCHANGED <<gridVars, flagVars, dispVars, keys, last_read, status>>

\* display.pixel raising in _draw_changed_cells (lines 174, 182)
DiffDrawFails ==
    /\ pc \in DiffPcs
    /\ paints' \in Prefixes(DrawChangedCells(next_grid, grid, width, height,
                                              pc = "draw_highlights"))
    /\ screen' = Paint(screen, paints', width)
    /\ exc' = "pixel"
    /\ pc' = "cleanup"
    /\ UNCHANGED <<gridVars, flagVars, keys, last_read, status, palette,
                   cursor>>

\* lines 193-199: the finally clause
Cleanup ==
    /\ pc = "cleanup"
    /\ screen' = [i \in Cells(width, height) |-> 0]
    /\ palette' = "default"
    /\ status' = << >>
    /\ cursor' = "shown"
    /\ pc' = "done"
    /\ UNCHANGED <<gridVars, flagVars, exc, keys, last_read, paints>>

Controller ==
    \/ Setup
    \/ InitialDraw
    \/ LoopTest
    \/ TopPollNoKey
    \/ TopPollPause
    \/ TopPollResume
    \/ TopPollQuit
    \/ TopPollOther
    \/ SkipUpdate
    \/ StatusDisplaying
    \/ DisplayDwell
    \/ DwellPollKey
    \/ DwellPollNoKey
    \/ StatusCalculating
    \/ Step
    \/ StatusDrawing
    \/ DrawHighlights
    \/ StatusDisplayingHighlights
    \/ HighlightDwell
    \/ StatusFinalizing
    \/ ResetHighlights
    \/ PausedStatus
    \/ StatusEndOfGen
    \/ Cleanup

Failure ==
    \/ InitialDrawFails
    \/ TopPollResumeFails
    \/ PollFails
    \/ StatusFails
    \/ DiffDrawFails

Next == Controller \/ Failure \/ KeyPress

Spec == Init /\ [][Next]_vars

\* the loop of run() always proceeds: both dwells are sleeps that return
FairSpec == Init /\ [][Next]_vars /\ WF_vars(Controller)

\* ------------------------------------------------------ step() by itself
\* step() called repeatedly on every grid of at most EngMaxCells cells
EngineInit == InitFor(EngMaxCells) /\ pc = "engine"

EngineStep ==
    /\ pc = "engine"
    /\ generation < EngMaxGen
    /\ StepBody
    /\ UNCHANGED <<width, height, flagVars, dispVars, pc, exc, keys,
                   last_read, status>>

EngineNext == EngineStep

EngineSpec == EngineInit /\ [][EngineNext]_vars

\* --------------------------------------- _draw_changed_cells by itself
\* any pair of buffers of at most RenMaxCells cells, any colour on screen
RenderInit ==
    /\ \E d \in Dims(RenMaxCells) :
          /\ width = d[1]
          /\ height = d[2]
          /\ grid \in [Cells(d[1], d[2]) -> {0, 1}]
          /\ next_grid \in [Cells(d[1], d[2]) -> {0, 1}]
          /\ live_neighbors = [i \in Cells(d[1], d[2]) |-> 0]
          /\ \E c \in Colors : screen = [i \in Cells(d[1], d[2]) |-> c]
    /\ paused = FALSE
    /\ running = TRUE
    /\ generation = 0
    /\ pc = "render"
    /\ exc = "none"
    /\ keys = << >>
    /\ last_read = NoRead
    /\ paints = << >>
    /\ status = << >>
    /\ palette = "pico8"
    /\ cursor = "hidden"

\* lines 113-115: draw_highlights()
RenderHighlight ==
    /\ pc = "render"
    /\ paints' = DrawChangedCells(next_grid, grid, width, height,
                                  HighlightMode)
    /\ screen' = Paint(screen, paints', width)
    /\ pc' = "highlighted"
    /\ UNCHANGED <<gridVars, flagVars, exc, keys, last_read, status, palette,
                   cursor>>

\* lines 117-119: reset_highlights()
RenderNormalize ==
    /\ pc \in {"render", "highlighted"}
    /\ paints' = DrawChangedCells(next_grid, grid, width, height, FALSE)
    /\ screen' = Paint(screen, paints', width)
    /\ pc' = "normalized"
    /\ UNCHANGED <<gridVars, flagVars, exc, keys, last_read, status, palette,
                   cursor>>

RenderNext == RenderHighlight \/ RenderNormalize

RenderSpec == RenderInit /\ [][RenderNext]_vars

\* ------------------------------------- step() on a stale scratch buffer
\* any grid of at most ScrMaxCells cells, any contents left in next_grid
ScratchInit ==
    /\ \E d \in Dims(ScrMaxCells) :
          /\ width = d[1]
          /\ height = d[2]
          /\ grid \in [Cells(d[1], d[2]) -> {0, 1}]
          /\ next_grid \in [Cells(d[1], d[2]) -> {0, 1}]
          /\ live_neighbors = [i \in Cells(d[1], d[2]) |-> 0]
          /\ screen = [i \in Cells(d[1], d[2]) |-> COLOR_DEAD]
    /\ paused = FALSE
    /\ running = TRUE
    /\ generation = 0
    /\ pc = "scratch"
    /\ exc = "none"
    /\ keys = << >>
    /\ last_read = NoRead
    /\ paints = << >>
    /\ status = << >>
    /\ palette = "default"
    /\ cursor = "shown"

ScratchStep ==
    /\ pc = "scratch"
    /\ generation < EngMaxGen
    /\ StepBody
    /\ UNCHANGED <<width, height, flagVars, dispVars, pc, exc, keys,
                   last_read, status>>

ScratchNext == ScratchStep

ScratchSpec == ScratchInit /\ [][ScratchNext]_vars

\* ------------------------------------------------ step() on known patterns
\* the alive cells of a pattern, as (x, y) offsets from its anchor
BlinkerVertical == {<<0, -1>>, <<0, 0>>, <<0, 1>>}
BlinkerHorizontal == {<<-1, 0>>, <<0, 0>>, <<1, 0>>}
Glider == {<<1, 0>>, <<2, 1>>, <<0, 2>>, <<1, 2>>, <<2, 2>>}

\* the w x h grid whose only alive cells are those of the pattern anchored at
\* (ax, ay), coordinates modulo w and h
Place(cells, ax, ay, w, h) ==
    [i \in Cells(w, h) |->
        IF \E c \in cells : ((ay + c[2]) % h) * w + ((ax + c[1]) % w) = i
        THEN 1 ELSE 0]

\* n calls of step() from grid g and scratch ng: the grid they leave
RECURSIVE StepTimes(_, _, _, _, _)
StepTimes(g, ng, w, h, n) ==
    IF n = 0 THEN g
    ELSE LET written == StepGrid(g, ng, w, h)
         IN  IF written \in [Cells(w, h) -> {0, 1}]
             THEN StepTimes(StepSwap(g, written)[1], StepSwap(g, written)[2],
                            w, h, n - 1)
             ELSE written

\* a grid of PatMinDim..PatMaxDim columns and rows that holds one blinker or
\* one glider, anchored at any cell
PatternInit ==
    /\ \E w \in PatMinDim .. PatMaxDim, h \in PatMinDim .. PatMaxDim :
          /\ width = w
          /\ height = h
          /\ \E ax \in 0 .. (w - 1), ay \in 0 .. (h - 1),
                cells \in {BlinkerVertical, Glider} :
                grid = Place(cells, ax, ay, w, h)
          /\ next_grid = [i \in Cells(w, h) |-> 0]
          /\ live_neighbors = [i \in Cells(w, h) |-> 0]
          /\ screen = [i \in Cells(w, h) |-> COLOR_DEAD]
    /\ paused = FALSE
    /\ running = TRUE
    /\ generation = 0
    /\ pc = "pattern"
    /\ exc = "none"
    /\ keys = << >>
    /\ last_read = NoRead
    /\ paints = << >>
    /\ status = << >>
    /\ palette = "default"
    /\ cursor = "shown"

PatternStep ==
    /\ pc = "pattern"
    /\ generation < PatMaxGen
    /\ StepBody
    /\ UNCHANGED <<width, height, flagVars, dispVars, pc, exc, keys,
                   last_read, status>>

PatternNext == PatternStep

PatternSpec == PatternInit /\ [][PatternNext]_vars

\* ------------------------------------------------- LifeGame(width, height)
\* the arguments of the constructor: any width and height, 0 included
CtorDims ==
    {d \in (0 .. MaxCells) \X (0 .. MaxCells) : d[1] * d[2] <= MaxCells}

\* before the object exists: pc = "new", width and height hold the arguments
CtorInit ==
    /\ \E d \in CtorDims :
          /\ width = d[1]
          /\ height = d[2]
          /\ \E c \in Colors : screen = [i \in Cells(d[1], d[2]) |-> c]
    /\ grid = << >>
    /\ next_grid = << >>
    /\ live_neighbors = << >>
    /\ paused = FALSE
    /\ running = FALSE
    /\ generation = 0
    /\ pc = "new"
    /\ exc = "none"
    /\ keys = << >>
    /\ last_read = NoRead
    /\ paints = << >>
    /\ status = << >>
    /\ palette = "default"
    /\ cursor = "shown"

\* lines 31-40: __init__; no statement tests width or height, and
\* bytearray(0) and range(0) are valid
Construct ==
    /\ pc = "new"
    /\ grid' \in [Cells(width, height) -> {0, 1}]
    /\ next_grid' = [i \in Cells(width, height) |-> 0]
    /\ live_neighbors' = [i \in Cells(width, height) |-> 0]
    /\ paused' = FALSE
    /\ running' = TRUE
    /\ generation' = 0
    /\ pc' = "start"
    /\ UNCHANGED <<width, height, dispVars, exc, keys, last_read, status>>

\* lines 203-205: construct, then run
CtorNext == Construct \/ Next

CtorSpec == CtorInit /\ [][CtorNext]_vars

\* ---------------------------------------------------------------- claims
PaintActions ==
    \/ InitialDraw \/ InitialDrawFails
    \/ TopPollResume \/ TopPollResumeFails
    \/ DrawHighlights \/ ResetHighlights \/ DiffDrawFails

StatusActions ==
    \/ StatusDisplaying \/ StatusCalculating \/ StatusDrawing
    \/ StatusDisplayingHighlights \/ StatusFinalizing
    \/ PausedStatus \/ StatusEndOfGen

\* C1: once a quit key has been processed (running is False), no step(),
\* no paint and no status write happens and generation never changes.
C1_TerminatedAbsorbing ==
    [][~running => /\ ~Step
                   /\ ~PaintActions
                   /\ ~StatusActions
                   /\ generation' = generation]_vars

\* C2: a pause or quit key read by the poll that ends the display dwell has
\* put the controller in Paused or Terminated by the time step() is next
\* invoked: step() is never entered with that key as the last one read.
C2_DwellKeyActedOn ==
    pc = "step" =>
        ~(last_read.at = "dwell" /\ last_read.key \in PauseKeys \cup QuitKeys)

\* C3: whenever a poll has read a quit key, the main loop eventually exits
\* (within the generation bound of the model).
C3_QuitTerminates ==
    (last_read.key \in QuitKeys)
        ~> (pc \in {"cleanup", "done"} \/ generation = MaxGen)

\* the table of the rules, one line per case
RuleTable(state, n) ==
    CASE state = 1 /\ (n < 2 \/ n > 3) -> 0
      [] state = 1 /\ n \in {2, 3} -> 1
      [] state = 0 /\ n = 3 -> 1
      [] state = 0 /\ n # 3 -> 0

\* C4: after step(), every cell holds the state the rule table gives for
\* its previous state and its live-neighbour count, a count in 0..8.
C4_RuleFidelity ==
    generation > 0 =>
        \A i \in Cells(width, height) :
            /\ live_neighbors[i] \in 0 .. 8
            /\ grid[i] = RuleTable(next_grid[i], live_neighbors[i])

C4_Witness ==
    /\ generation > 0
    /\ \E i \in Cells(width, height) :
          next_grid[i] = 0 /\ live_neighbors[i] = 3 /\ grid[i] = 1
    /\ \E i \in Cells(width, height) :
          next_grid[i] = 1 /\ live_neighbors[i] > 3 /\ grid[i] = 0
    /\ \E i \in Cells(width, height) :
          next_grid[i] = 1 /\ live_neighbors[i] \in {2, 3} /\ grid[i] = 1
    /\ \E i \in Cells(width, height) :
          next_grid[i] = 0 /\ live_neighbors[i] # 3 /\ grid[i] = 0

\* -1 wraps to dim - 1 and dim wraps to 0
WrapEdge(c, dim) == IF c = 0 - 1 THEN dim - 1 ELSE IF c = dim THEN 0 ELSE c

NeighborOffsets == ((-1 .. 1) \X (-1 .. 1)) \ {<<0, 0>>}

\* C5: the count step() used for cell (x,y) is the number of offsets other
\* than (0,0) whose wrapped target is alive in the source grid, one per
\* offset even when several offsets reach the same position.
C5_NeighborCount ==
    generation > 0 =>
        \A i \in Cells(width, height) :
            LET x == i % width
                y == i \div width
            IN  live_neighbors[i] =
                    Cardinality({o \in NeighborOffsets :
                        next_grid[WrapEdge(y + o[2], height) * width
                                  + WrapEdge(x + o[1], width)] = 1})

C5_Witness ==
    /\ generation > 0
    /\ width = 1
    /\ height = 2
    /\ next_grid[0] = 0
    /\ next_grid[1] = 1
    /\ live_neighbors[0] = 6

\* C6: generation starts at 0, each step() adds exactly 1, nothing else
\* changes it, and no transition taken while paused changes it.
C6_GenerationMonotonic ==
    /\ generation = 0
    /\ [][/\ Step => generation' = generation + 1
          /\ ~Step => generation' = generation
          /\ paused => generation' = generation]_vars

C6_Witness == generation >= 2 /\ paused

\* C7: a toggle-pause key read while paused paints every cell of the current
\* grid once, in the standard colours, in the same handler (so before any
\* step() or diff render), unless display.pixel raises and run() is left.
C7_ResumeFullRedraw ==
    [][(paused /\ ~paused') =>
          \/ pc' = "cleanup" /\ exc' = "pixel"
          \/ /\ Len(paints') = width * height
             /\ {p.y * width + p.x : p \in {paints'[k] : k \in DOMAIN paints'}}
                    = Cells(width, height)
             /\ \A k \in DOMAIN paints' :
                    paints'[k].color =
                        IF grid[paints'[k].y * width + paints'[k].x] = 1
                        THEN COLOR_ALIVE ELSE COLOR_DEAD
             /\ \A i \in Cells(width, height) :
                    screen'[i] = IF grid[i] = 1 THEN COLOR_ALIVE ELSE COLOR_DEAD
             /\ UNCHANGED <<grid, next_grid, generation>>]_vars

C7_Witness ==
    /\ pc = "update"
    /\ ~paused
    /\ last_read.at = "top"
    /\ last_read.key \in PauseKeys
    /\ generation > 0
    /\ width * height > 1
    /\ Len(paints) = width * height
    /\ \E i \in Cells(width, height) : next_grid[i] = grid[i]

C9_CleanupOnEveryExit ==
    pc \in {"done", "aborted"} =>
        /\ palette = "default"
        /\ cursor = "shown"
        /\ \A i \in Cells(width, height) : screen[i] = 0

\* C10: a poll that reads a key other than p/P/q/Q changes none of paused,
\* running, generation and the grids, and goes where the same poll goes
\* when it reads no key.
C10_OtherKeyIgnored ==
    [][(pc \in PollPcs /\ keys # << >> /\ keys' = Tail(keys)
          /\ Head(keys) \in OtherKeys) =>
          /\ UNCHANGED <<paused, running, generation, grid, next_grid>>
          /\ pc' = IF pc = "poll" THEN "update" ELSE "calc_status"]_vars

\* the settled view of grid g: every block in its standard colour
Settled(g) ==
    [i \in DOMAIN g |-> IF g[i] = 1 THEN COLOR_ALIVE ELSE COLOR_DEAD]

\* the highlighted view of the change old -> new: a changed block in its
\* transition colour, the other blocks in their standard colour
Highlighted(old, new) ==
    [i \in DOMAIN new |->
        IF old[i] = new[i] THEN Settled(new)[i]
        ELSE IF new[i] = 1 THEN COLOR_BORN ELSE COLOR_DIED]

\* C11: in a cycle that advances the generation the display dwell is held on
\* the settled view of generation N under its "Displaying Gen N" status,
\* step() then runs from that settled view, the highlight render turns it
\* into the highlighted view of N -> N+1, the highlight dwell is held on that
\* view, and only then the normalize render settles generation N+1.
C11_CycleOrder ==
    [][/\ DisplayDwell =>
             /\ screen = Settled(grid)
             /\ status = <<"Gen: ", generation, ", ",
                           "Displaying Gen ", generation>>
       /\ Step =>
             /\ screen = Settled(grid)
             /\ status = <<"Gen: ", generation, ", ",
                           "Calculating next generation">>
             /\ pc' = "draw_status"
       /\ DrawHighlights =>
             /\ screen = Settled(next_grid)
             /\ status = <<"Gen: ", generation, ", ", "Drawing highlights">>
             /\ screen' = Highlighted(next_grid, grid)
       /\ HighlightDwell =>
             /\ screen = Highlighted(next_grid, grid)
             /\ status = <<"Gen: ", generation, ", ", "Displaying highlights">>
       /\ ResetHighlights =>
             /\ screen = Highlighted(next_grid, grid)
             /\ status = <<"Gen: ", generation, ", ",
                           "Finalizing generation display">>
             /\ screen' = Settled(grid)]_vars

C11_Witness ==
    /\ pc = "report"
    /\ ~paused
    /\ generation = 1
    /\ paints # << >>
    /\ screen = Settled(grid)
    /\ status = <<"Gen: ", 1, ", ", "Finalizing generation display">>

\* C12: construction with width 0 or height 0 is rejected: every LifeGame
\* that exists (constructed, running or finished) has width and height >= 1.
C12_ZeroDimensionRejected ==
    pc # "new" => (width >= 1 /\ height >= 1)

\* C13: on a grid of at least 4 columns and 4 rows whose only alive cells
\* are a vertical bar of 3, one step() yields the horizontal bar of 3 through
\* the same centre and two step() calls yield the original grid.
C13_BlinkerPeriod2 ==
    \A ax \in 0 .. (width - 1), ay \in 0 .. (height - 1) :
        (/\ width >= 4
         /\ height >= 4
         /\ grid = Place(BlinkerVertical, ax, ay, width, height)) =>
            /\ StepTimes(grid, next_grid, width, height, 1)
                   = Place(BlinkerHorizontal, ax, ay, width, height)
            /\ StepTimes(grid, next_grid, width, height, 2) = grid

\* two step() calls have run on a vertical bar that crosses the top edge
C13_Witness ==
    /\ pc = "pattern"
    /\ generation = 2
    /\ width = 5
    /\ height = 4
    /\ grid = Place(BlinkerVertical, 4, 0, width, height)
    /\ next_grid = Place(BlinkerHorizontal, 4, 0, width, height)

\* C14 as stated: on any grid whose only alive cells are the glider, four
\* step() calls yield the glider translated by (1,1) modulo W and H.
C14_GliderTranslates ==
    \A ax \in 0 .. (width - 1), ay \in 0 .. (height - 1) :
        grid = Place(Glider, ax, ay, width, height) =>
            StepTimes(grid, next_grid, width, height, 4)
                = Place(Glider, ax + 1, ay + 1, width, height)

\* C14 amended: the same on a grid of at least 5 columns and 5 rows.
C14_GliderTranslatesFrom5 ==
    \A ax \in 0 .. (width - 1), ay \in 0 .. (height - 1) :
        (/\ width >= 5
         /\ height >= 5
         /\ grid = Place(Glider, ax, ay, width, height)) =>
            StepTimes(grid, next_grid, width, height, 4)
                = Place(Glider, ax + 1, ay + 1, width, height)

\* four step() calls have run on a glider that crossed both edges
C14_Witness ==
    /\ pc = "pattern"
    /\ generation = 4
    /\ width = 5
    /\ height = 5
    /\ grid = Place(Glider, 4, 4, width, height)

\* C15: every block painted by a diff render has the colour its mode gives
\* to the cell's new state: highlight paints COLOR_BORN on a cell that became
\* alive and COLOR_DIED on one that became dead; normalize paints COLOR_ALIVE
\* on an alive cell and COLOR_DEAD on a dead one.
C15_DiffColours ==
    /\ pc = "highlighted" =>
          \A k \in DOMAIN paints :
              LET i == paints[k].y * width + paints[k].x
              IN  /\ (next_grid[i] = 0 /\ grid[i] = 1)
                         => paints[k].color = COLOR_BORN
                  /\ (next_grid[i] = 1 /\ grid[i] = 0)
                         => paints[k].color = COLOR_DIED
                  /\ paints[k].color \in {COLOR_BORN, COLOR_DIED}
                  /\ screen[i] = paints[k].color
    /\ pc = "normalized" =>
          \A k \in DOMAIN paints :
              LET i == paints[k].y * width + paints[k].x
              IN  /\ grid[i] = 1 => paints[k].color = COLOR_ALIVE
                  /\ grid[i] = 0 => paints[k].color = COLOR_DEAD
                  /\ paints[k].color \in {COLOR_ALIVE, COLOR_DEAD}
                  /\ screen[i] = paints[k].color

\* a highlight render that painted a born cell and a died cell
C15_Witness ==
    /\ pc = "highlighted"
    /\ \E k \in DOMAIN paints : paints[k].color = COLOR_BORN
    /\ \E k \in DOMAIN paints : paints[k].color = COLOR_DIED
    /\ \E i \in Cells(width, height) : next_grid[i] = grid[i]

\* the grid the rules give from g, cell by cell
ExpectedGrid(g, w, h) ==
    [i \in Cells(w, h) |->
        RuleTable(g[i],
                  Cardinality({o \in NeighborOffsets :
                      g[WrapEdge((i \div w) + o[2], h) * w
                        + WrapEdge((i % w) + o[1], w)] = 1}))]

\* from the return of step() to the normalize render
AfterStepPcs == {"draw_status", "draw_highlights", "hl_status", "hl_dwell",
                 "final_status", "reset_highlights"}

\* C16: step() leaves the pre-step contents of grid, unmodified, in
\* next_grid and the computed next generation in grid, and the pair stays so
\* until the normalize render has run: both diff passes see generation N as
\* previous and generation N+1 as current.
C16_SourcePreserved ==
    /\ [](pc \in AfterStepPcs => grid = ExpectedGrid(next_grid, width, height))
    /\ [][/\ Step => /\ next_grid' = grid
                     /\ grid' = ExpectedGrid(grid, width, height)
          /\ pc \in AfterStepPcs => UNCHANGED <<grid, next_grid>>]_vars

C16_Witness ==
    /\ pc = "reset_highlights"
    /\ generation >= 1
    /\ next_grid # grid
    /\ grid = ExpectedGrid(next_grid, width, height)

\* C17: the grid a call of step() produces is the one it would produce from
\* the same source grid with any other contents in the scratch buffer.
C17_ScratchIndependent ==
    [][ScratchStep =>
          \A other \in [Cells(width, height) -> {0, 1}] :
              StepSwap(grid, StepGrid(grid, other, width, height))[1] = grid']_vars

\* a second step() has run, over the grid of two generations earlier, and
\* its result has alive and dead cells
C17_Witness ==
    /\ pc = "scratch"
    /\ generation = 2
    /\ width * height >= 4
    /\ \E i \in Cells(width, height) : grid[i] = 1
    /\ \E i \in Cells(width, height) : grid[i] = 0

\* the loop test, the top poll, the branch of line 161, the display dwell and
\* its poll, and the report of lines 185-191 (every paused position is one)
SettledPcs == {"loop_test", "poll", "update", "dwell", "dwell_poll", "report"}

\* C18: at the start of a loop iteration, in the display dwell and while
\* paused, every block shows the standard colour of its cell in the current
\* grid; no COLOR_BORN or COLOR_DIED block is left after the normalize render.
C18_ScreenSettled ==
    pc \in SettledPcs =>
        /\ screen = Settled(grid)
        /\ \A i \in Cells(width, height) :
               screen[i] \notin {COLOR_BORN, COLOR_DIED}

\* in the display dwell after a step, a pause and a resume
C18_Witness ==
    /\ pc = "dwell"
    /\ ~paused
    /\ generation >= 1
    /\ last_read.at = "top"
    /\ last_read.key \in PauseKeys
    /\ screen = Settled(grid)
    /\ width * height > 1

\* C19: while the controller stays paused in its loop (no toggle-pause or
\* quit key read, no exception propagating), no step() runs, no block is
\* painted, grid and next_grid keep their contents, and the only write to
\* the status line is the paused text.
C19_PauseFreezes ==
    [][(paused /\ paused' /\ running /\ running' /\ exc = "none") =>
          /\ ~Step
          /\ ~PaintActions
          /\ UNCHANGED <<grid, next_grid, generation, screen, paints>>
          /\ StatusActions => PausedStatus
          /\ status' # status => status' = PausedText]_vars

\* paused after a step, the paused text written, an ignored key read since
C19_Witness ==
    /\ paused
    /\ running
    /\ pc = "loop_test"
    /\ generation >= 1
    /\ status = PausedText
    /\ last_read = [key |-> "x", at |-> "top"]

====
